---- MODULE Spec2Model ----
(***************************************************************************)
(* Model of service.py: the ZOO service entry function, the execution      *)
(* handler EoepcaCalrissianRunnerExecutionHandler with its two hooks       *)
(* (pre_execution_hook, post_execution_hook), setOutput, handle_outputs    *)
(* and the failure path of the entry function.                             *)
(*                                                                         *)
(* Python values are modelled as follows: None is the string NoneVal, a    *)
(* dict is a function whose DOMAIN is the set of keys present, a list is   *)
(* a sequence, a path or URL is the sequence of its segments.  Everything  *)
(* the environment decides (the process environment, the configuration,    *)
(* the token, the reply of the workspace API, the engine's outputs, the    *)
(* documents in the object store, which external calls fail) is chosen in  *)
(* Init and never changed by the program unless the code assigns it.       *)
(***************************************************************************)
EXTENDS Naturals, Sequences, FiniteSets, TLC

VARIABLES
    pc,                        \* position in the entry function / runner.execute
    zoo_imported,              \* whether "import zoo" succeeded (lines 6-21)
    environ,                   \* os.environ
    conf_eoepca,               \* conf["eoepca"]
    conf_auth_env,             \* conf["auth_env"]
    conf_lenv,                 \* conf["lenv"]
    conf_main,                 \* conf["main"]
    conf_additional_parameters,\* conf["additional_parameters"]
    conf_service_logs,         \* conf["service_logs"]
    conf_keys,                 \* which of the optional sections conf holds
    outputs,                   \* the outputs mapping handed to the entry function
    http_proxy_env,            \* handler.http_proxy_env
    use_workspace,             \* handler.use_workspace
    workspace_catalog_register,\* handler.workspace_catalog_register
    username,                  \* handler.username
    username_source,           \* pre_execution_hook's local username_source
    ades_rx_token,             \* handler.ades_rx_token
    runner_defined,            \* the local name runner is bound
    handler_defined,           \* the local name execution_handler is bound
    workspace_api,             \* what the workspace API answers to the GET
    register_api,              \* what the workspace API answers to the POSTs
    engine,                    \* what the external engine does and returns
    store,                     \* the documents of the object store, by key
    faults,                    \* which other external calls fail
    output,                    \* the engine's output mapping, as the hooks see it
    next_output,               \* post_execution_hook: index of the output to map
    requests,                  \* history: HTTP requests issued, in order
    reads,                     \* history: catalog reads attempted, in order
    exc,                       \* the exception being handled in the entry function
    salvage,                   \* history: which steps of the failure path were done
    hook_entry,                \* history: HTTP_PROXY at the entry of the running hook
    hook_log,                  \* history: one record per finished hook call
    env_changes,               \* history: how often other code changed HTTP_PROXY
    proxy_writes,              \* the values other code of the process gives HTTP_PROXY
    execution_started,         \* runner.execution is set
    result                     \* the value the entry function returned

vars == << pc, zoo_imported, environ, conf_eoepca, conf_auth_env, conf_lenv,
           conf_main, conf_additional_parameters, conf_service_logs, conf_keys, outputs,
           http_proxy_env, use_workspace, workspace_catalog_register, username,
           username_source, ades_rx_token, runner_defined, handler_defined, workspace_api,
           register_api, engine, store, faults, output, next_output, requests,
           reads, exc, salvage, hook_entry, hook_log, env_changes, proxy_writes,
           execution_started, result >>

----------------------------------------------------------------------------
(* Bounds of the model *)

\* number of outputs declared to the entry function
NumOutputs == 2
\* largest number of items in a catalog document
MaxItems == 2
\* largest number of tool logs the engine returns
MaxToolLogs == 2
\* how many times other code of the process changes HTTP_PROXY between the hooks
MaxEnvChanges == 1

----------------------------------------------------------------------------
(* Python values *)

NoneVal == "<None>"
Absent == "<absent>"

\* Python truthiness of a str-or-None value
Truthy(x) == x # NoneVal /\ x # ""

\* dict helpers
Get(d, k, dflt) == IF k \in DOMAIN d THEN d[k] ELSE dflt
Put(d, k, v) == [x \in (DOMAIN d) \cup {k} |-> IF x = k THEN v ELSE d[x]]
Pop(d, k) == [x \in (DOMAIN d) \ {k} |-> d[x]]
EmptyDict == [x \in {} |-> ""]

\* zoo.SERVICE_SUCCEEDED, zoo.SERVICE_FAILED
SERVICE_SUCCEEDED == 3
SERVICE_FAILED == 4

----------------------------------------------------------------------------
(* EnvScope: unset_http_proxy_env / restore_http_proxy_env *)

\* os.environ.pop("HTTP_PROXY", None)
unset_http_proxy_env(env) == Pop(env, "HTTP_PROXY")

\* restores the value captured by the constructor, when it is truthy
restore_http_proxy_env(env, saved) ==
    IF Truthy(saved) THEN Put(env, "HTTP_PROXY", saved) ELSE env

\* presence and value of HTTP_PROXY, for the history variables
ProxyOf(env) ==
    IF "HTTP_PROXY" \in DOMAIN env
    THEN [present |-> TRUE, value |-> env["HTTP_PROXY"]]
    ELSE [present |-> FALSE, value |-> ""]

----------------------------------------------------------------------------
(* init_config_defaults *)

StageInKeys == { "STAGEIN_AWS_SERVICEURL", "STAGEIN_AWS_ACCESS_KEY_ID",
                 "STAGEIN_AWS_SECRET_ACCESS_KEY", "STAGEIN_AWS_REGION" }
StageOutKeys == { "STAGEOUT_AWS_SERVICEURL", "STAGEOUT_AWS_ACCESS_KEY_ID",
                  "STAGEOUT_AWS_SECRET_ACCESS_KEY", "STAGEOUT_AWS_REGION",
                  "STAGEOUT_OUTPUT" }
StageKeys == StageInKeys \cup StageOutKeys

\* the hard-coded fallbacks of os.environ.get(key, fallback)
HardDefault ==
    [k \in StageKeys |->
        CASE k \in {"STAGEIN_AWS_SERVICEURL", "STAGEOUT_AWS_SERVICEURL"}
                -> "http://s3-service.zoo.svc.cluster.local:9000"
          [] k \in {"STAGEIN_AWS_ACCESS_KEY_ID", "STAGEOUT_AWS_ACCESS_KEY_ID"}
                -> "minio-admin"
          [] k \in {"STAGEIN_AWS_SECRET_ACCESS_KEY", "STAGEOUT_AWS_SECRET_ACCESS_KEY"}
                -> "minio-secret-password"
          [] k \in {"STAGEIN_AWS_REGION", "STAGEOUT_AWS_REGION"}
                -> "RegionOne"
          [] OTHER -> "eoepca"]

\* os.environ.get(k, HardDefault[k])
DefaultOf(env, k) == Get(env, k, HardDefault[k])

\* a variant that fills in the stage-out keys only
init_config_defaults_stageout(ap, env) ==
    [k \in (DOMAIN ap) \cup StageOutKeys |->
        IF k \in StageOutKeys THEN DefaultOf(env, k) ELSE ap[k]]

\* sets the nine staging keys, keeps every other key of additional_parameters
init_config_defaults(ap, env) ==
    [k \in (DOMAIN ap) \cup StageKeys |->
        IF k \in StageKeys THEN DefaultOf(env, k) ELSE ap[k]]

----------------------------------------------------------------------------
(* IdentityResolver: jwt.decode without verification, get_user_name *)

EmptyToken == [kind |-> "empty"]
MalformedToken == [kind |-> "malformed"]
Jwt(payload) == [kind |-> "jwt", payload |-> payload]

\* truthiness of the token string
TokenTruthy(tok) == tok.kind # "empty"

ClaimKeys == << "username", "user_name", "preferred_username" >>

RECURSIVE FirstClaim(_, _)
FirstClaim(decodedJwt, i) ==
    IF i > Len(ClaimKeys) THEN NoneVal
    ELSE IF ClaimKeys[i] \in DOMAIN decodedJwt THEN decodedJwt[ClaimKeys[i]]
    ELSE FirstClaim(decodedJwt, i + 1)

\* a variant that prefers the last of the three keys
get_user_name_reversed(decodedJwt) ==
    IF "preferred_username" \in DOMAIN decodedJwt THEN decodedJwt["preferred_username"]
    ELSE IF "user_name" \in DOMAIN decodedJwt THEN decodedJwt["user_name"]
    ELSE IF "username" \in DOMAIN decodedJwt THEN decodedJwt["username"]
    ELSE NoneVal

\* the value of the first of the three keys the payload holds, else None
get_user_name(decodedJwt) == FirstClaim(decodedJwt, 1)

\* lines 134-146: the username after the token and the namespace were consulted;
\* jwt.decode raises on a token it cannot parse
ResolveUsername(tok, env, current) ==
    IF TokenTruthy(tok) /\ tok.kind = "malformed"
    THEN [raised |-> TRUE, username |-> current, source |-> NoneVal]
    ELSE LET fromToken == IF TokenTruthy(tok) THEN get_user_name(tok.payload)
                          ELSE current
             fromEnv == Get(env, "SERVICES_NAMESPACE", NoneVal)
         IN  IF TokenTruthy(tok) /\ Truthy(fromToken)
             THEN [raised |-> FALSE, username |-> fromToken, source |-> "JWT"]
             ELSE IF ~Truthy(fromToken)
             THEN [raised |-> FALSE, username |-> fromEnv,
                   source |-> IF Truthy(fromEnv) THEN "Path-Prefix" ELSE NoneVal]
             ELSE [raised |-> FALSE, username |-> fromToken, source |-> NoneVal]

----------------------------------------------------------------------------
(* HTTP requests to the workspace API *)

\* a request, as the history records it: the endpoint is
\* {base}/workspaces/{prefix}-{user}[/{path}]
Request(method, base, prefix, user, path, tok, body) ==
    [method |-> method, base |-> base, prefix |-> prefix, user |-> user,
     path |-> path, bearer |-> TokenTruthy(tok), body |-> body]

\* replies of the workspace API to the GET
NetworkError == [net |-> "error"]
Reply(status, body) == [net |-> "ok", status |-> status, body |-> body]
NotJson == [json |-> FALSE]
JsonWithout == [json |-> TRUE, has_creds |-> FALSE]
JsonWith(creds) == [json |-> TRUE, has_creds |-> TRUE, creds |-> creds]

\* requests.Response.ok: the status is below 400
ResponseOk(reply) == reply.status < 400

CredKeys == {"endpoint", "access", "secret", "region", "bucketname"}

\* which field of storage.credentials each STAGEOUT_* key is read from
CredFieldOf ==
    [k \in StageOutKeys |->
        CASE k = "STAGEOUT_AWS_SERVICEURL" -> "endpoint"
          [] k = "STAGEOUT_AWS_ACCESS_KEY_ID" -> "access"
          [] k = "STAGEOUT_AWS_SECRET_ACCESS_KEY" -> "secret"
          [] k = "STAGEOUT_AWS_REGION" -> "region"
          [] OTHER -> "bucketname"]

\* lines 179-183: storage_credentials.get(field) for each of the five keys
ApplyCredentials(ap, creds) ==
    [k \in (DOMAIN ap) \cup StageOutKeys |->
        IF k \in StageOutKeys THEN Get(creds, CredFieldOf[k], NoneVal) ELSE ap[k]]

\* lines 154-192: the workspace lookup of pre_execution_hook
WorkspaceLookup(use_ws, eo, user, tok, ap, reply) ==
    IF ~use_ws
    THEN [raised |-> "", use_workspace |-> use_ws, ap |-> ap, sent |-> << >>]
    ELSE LET get == Request("GET", Get(eo, "workspace_url", ""),
                            Get(eo, "workspace_prefix", ""), user, "", tok, "")
         IN  IF reply.net = "error"
             THEN [raised |-> "ConnectionError", use_workspace |-> use_ws,
                   ap |-> ap, sent |-> << get >>]
             ELSE IF ResponseOk(reply)
             THEN IF ~reply.body.json
                  THEN [raised |-> "JSONDecodeError", use_workspace |-> use_ws,
                        ap |-> ap, sent |-> << get >>]
                  ELSE IF ~reply.body.has_creds
                  THEN [raised |-> "KeyError", use_workspace |-> use_ws,
                        ap |-> ap, sent |-> << get >>]
                  ELSE [raised |-> "", use_workspace |-> use_ws,
                        ap |-> ApplyCredentials(ap, reply.body.creds),
                        sent |-> << get >>]
             ELSE [raised |-> "", use_workspace |-> FALSE, ap |-> ap,
                   sent |-> << get >>]

\* lines 194-196: collection_id and process from lenv.usid
SetCollectionId(ap, lenv) ==
    LET cid == Get(lenv, "usid", "")
    IN  Put(Put(ap, "collection_id", cid), "process", << "processing-results", cid >>)

\* lines 126-201: the try block of pre_execution_hook, on the environment
\* without HTTP_PROXY; raised names the exception re-raised, "" when none
pre_execution_body(env, tok, user, use_ws, eo, ap, lenv, reply) ==
    LET id == ResolveUsername(tok, env, user)
    IN  IF id.raised
        THEN [raised |-> "DecodeError", username |-> user, source |-> id.source,
              use_workspace |-> use_ws, ap |-> ap, sent |-> << >>]
        ELSE LET ws == WorkspaceLookup(use_ws, eo, id.username, tok, ap, reply)
             IN  [raised |-> ws.raised, username |-> id.username,
                  source |-> id.source,
                  use_workspace |-> ws.use_workspace,
                  ap |-> IF ws.raised = "" THEN SetCollectionId(ws.ap, lenv) ELSE ws.ap,
                  sent |-> ws.sent]

----------------------------------------------------------------------------
(* Values the engine returns and documents of the object store *)

\* str(x) and json.dumps(x, indent=2): the text of a value, not the value
Str(x) == [str_of |-> x]
Dumps(x) == [json_of |-> x, indent |-> 2]

\* the empty-collection sentinel, json.dumps({}, indent=2)
Sentinel == Dumps(EmptyDict)

\* what the engine's output mapping holds for one output name
NoneOut == [kind |-> "none"]
ScalarOut(v) == [kind |-> "scalar", v |-> v]
DictOut(path) == [kind |-> "dict", value |-> path]
ListOut(els) == [kind |-> "list", els |-> els]

\* an element of a list value: None, or a dict with the key "value"
NoneEl == [kind |-> "none"]
RefEl(path) == [kind |-> "dict", value |-> path]

\* a storage reference: with or without the s3:// marker
Path(s3, key) == [s3 |-> s3, key |-> key]

\* lines 253-254: prefix the reference with s3:// when it has none
NormalizePath(path) == IF ~path.s3 THEN Path(TRUE, path.key) ELSE path

\* documents: read_file returns a Catalog (with the collections and the items
\* reachable from it) or an Item, or raises
Unreadable == [kind |-> "unreadable"]
ItemDoc == [kind |-> "item"]
CatalogDoc(cols, items) == [kind |-> "catalog", collections |-> cols, items |-> items]

\* read_file(s3_path) through CustomStacIO: an s3:// reference is fetched from
\* the object store; FALSE stands for the exception read_file raises
ReadFails(st, path) ==
    \/ ~path.s3
    \/ path.key \notin DOMAIN st
    \/ st[path.key].kind = "unreadable"

\* lines 276-282: the five storage fields injected into an asset
InjectStorage(asset, ap) ==
    LET injected == {"storage:platform", "storage:requester_pays", "storage:tier",
                     "storage:region", "storage:endpoint"}
    IN  [k \in (DOMAIN asset) \cup injected |->
            CASE k = "storage:platform" -> "EOEPCA"
              [] k = "storage:requester_pays" -> FALSE
              [] k = "storage:tier" -> "Standard"
              [] k = "storage:region" -> ap["STAGEOUT_AWS_REGION"]
              [] k = "storage:endpoint" -> ap["STAGEOUT_AWS_SERVICEURL"]
              [] OTHER -> asset[k]]

\* lines 275-283: every asset of the item rewritten, the item stamped
StampItem(item, cid, ap) ==
    [id |-> item.id,
     collection_id |-> cid,
     assets |-> [a \in DOMAIN item.assets |-> InjectStorage(item.assets[a], ap)]]

\* a variant in which items is a list: line 285 appends to the list the loop
\* of line 274 iterates, so the loop never runs out of elements
ScanItemsOverList(items, cid, ap) ==
    IF Len(items) = 0
    THEN [failed |-> FALSE, diverges |-> FALSE, itemFinal |-> << >>]
    ELSE [failed |-> FALSE, diverges |-> TRUE, itemFinal |-> << >>]

\* lines 272-287: items is the iterator cat.get_all_items() returns (pystac
\* declares Iterator[Item]); the loop body handles the first item and then
\* calls items.append, which an iterator does not have: AttributeError, caught
\* at line 288 before collection is assigned.  diverges tells whether the
\* loop of line 274 fails to end
ScanItems(items, cid, ap) ==
    IF Len(items) = 0
    THEN [failed |-> FALSE, diverges |-> FALSE, itemFinal |-> << >>]
    ELSE [failed |-> TRUE, diverges |-> FALSE,
          itemFinal |-> << StampItem(items[1], cid, ap) >>]

\* the local name collection of setOutput
UnboundCol == [bound |-> FALSE]
NoneCol == [bound |-> TRUE, kind |-> "none"]
NativeCol(c) == [bound |-> TRUE, kind |-> "Collection", source |-> c]
ItemCol(items) == [bound |-> TRUE, kind |-> "ItemCollection", items |-> items]

\* collection.to_dict()
ToDict(col) ==
    IF col.kind = "Collection"
    THEN [type |-> "Collection", id |-> col.source.id, href |-> col.source.href,
          features |-> << >>]
    ELSE [type |-> "FeatureCollection", id |-> NoneVal, href |-> NoneVal,
          features |-> col.items]

\* a variant that keeps the identifier of the source document
CollectionDictKeepingId(col, cid) == ToDict(col)

\* lines 299-302: the dict stored in the output, its id forced to collection_id
CollectionDict(col, cid) == [ToDict(col) EXCEPT !.id = cid]

\* a variant that runs the item scan also when the catalog holds a collection
AssembleScanning(doc, st, cid, ap) ==
    IF doc.kind = "item"
    THEN [st EXCEPT !.collection = NoneCol]
    ELSE LET scan == ScanItems(doc.items, cid, ap)
         IN  [st EXCEPT !.collection = IF scan.failed THEN NoneCol
                                       ELSE ItemCol(scan.itemFinal),
                        !.items_is_list = FALSE,
                        !.diverges = scan.diverges,
                        !.itemFinal = scan.itemFinal]

\* lines 265-289: one pass of the loop body after the document was read
Assemble(doc, st, cid, ap) ==
    IF doc.kind = "catalog" /\ Len(doc.collections) > 0
    THEN [st EXCEPT !.collection = NativeCol(doc.collections[1])]
    ELSE IF doc.kind = "item"
    THEN [st EXCEPT !.collection = NoneCol]
    ELSE LET scan == ScanItems(doc.items, cid, ap)
         IN  [st EXCEPT !.collection = IF scan.failed THEN NoneCol
                                       ELSE ItemCol(scan.itemFinal),
                        !.items_is_list = FALSE,
                        !.diverges = scan.diverges,
                        !.itemFinal = scan.itemFinal]

\* a variant that lets the exception of read_file escape
OnReadFailureRaising(st) == [st EXCEPT !.raised = "Exception", !.read_failed = TRUE]

\* lines 256-259: read_file raised: the sentinel is recorded and setOutput returns
OnReadFailure(st) == [st EXCEPT !.returned = TRUE, !.read_failed = TRUE]

\* lines 248-289: the loop over the values of the output, from element i
RECURSIVE ValuesLoop(_, _, _, _, _)
ValuesLoop(els, i, st, objects, ap) ==
    IF i > Len(els) \/ st.raised # "" \/ st.returned \/ st.diverges THEN st
    ELSE IF els[i].kind = "none" THEN st
    ELSE IF els[i].kind # "dict" THEN [st EXCEPT !.raised = "TypeError"]
    ELSE LET s3_path == NormalizePath(els[i].value)
             rd == [st EXCEPT !.reads = Append(@, s3_path)]
         IN  IF ReadFails(objects, s3_path)
             THEN OnReadFailure(rd)
             ELSE IF "collection_id" \notin DOMAIN ap
             THEN [rd EXCEPT !.raised = "KeyError"]
             ELSE ValuesLoop(els, i + 1,
                             Assemble(objects[s3_path.key],
                                      [rd EXCEPT !.cid = ap["collection_id"]],
                                      ap["collection_id"], ap),
                             objects, ap)

\* lines 242-244: a value that is not a list becomes a one-element list
AsList(v) ==
    CASE v.kind = "list" -> v.els
      [] v.kind = "none" -> << NoneEl >>
      [] v.kind = "dict" -> << RefEl(v.value) >>
      [] OTHER -> << v >>

\* lines 304-329: the two registration POSTs; a POST the network fails raises
Register(on, eo, user, tok, dict, api) ==
    IF ~on THEN [raised |-> "", sent |-> << >>]
    ELSE LET base == Get(eo, "workspace_url", "")
             prefix == Get(eo, "workspace_prefix", "")
             first == Request("POST", base, prefix, user, "register-json", tok, dict)
             second == Request("POST", base, prefix, user, "register", tok,
                               [type |-> "stac-item", url |-> dict.href])
         IN  IF api.json = "error"
             THEN [raised |-> "ConnectionError", sent |-> << first >>]
             ELSE IF api.item = "error"
             THEN [raised |-> "ConnectionError", sent |-> << first, second >>]
             ELSE [raised |-> "", sent |-> << first, second >>]

\* lines 238-329: setOutput on one output; gives the output's entry, the value
\* list left in the engine's mapping, the requests sent and the exception
\* raised ("" when it returns).  items is the empty list of line 246 unless
\* line 272 rebound it to an iterator, on which len() at line 297 raises
setOutput(entry, value, objects, ap, reg, eo, user, tok, api) ==
    LET els == AsList(value)
        st0 == [raised |-> "", returned |-> FALSE, read_failed |-> FALSE,
                diverges |-> FALSE,
                collection |-> UnboundCol, cid |-> NoneVal,
                items_is_list |-> TRUE, itemFinal |-> << >>, reads |-> << >>]
        st == ValuesLoop(els, 1, st0, objects, ap)
        Out(e, sent, raised) ==
            [entry |-> e, value |-> ListOut(els), sent |-> sent, raised |-> raised,
             read_failed |-> st.read_failed, scanned |-> st.itemFinal,
             reads |-> st.reads, diverges |-> st.diverges]
    IN  IF st.diverges THEN Out(entry, << >>, "")
        ELSE IF st.raised # "" THEN Out(entry, << >>, st.raised)
        ELSE IF st.returned THEN Out(Put(entry, "collection", Sentinel), << >>, "")
        ELSE IF ~st.collection.bound THEN Out(entry, << >>, "UnboundLocalError")
        ELSE IF st.collection.kind = "none"
        THEN Out(Put(entry, "collection", Sentinel), << >>, "")
        ELSE IF ~st.items_is_list THEN Out(entry, << >>, "TypeError")
        ELSE LET dict == CollectionDict(st.collection, st.cid)
                 r == Register(reg, eo, user, tok, dict, api)
             IN  Out(Put(entry, "collection", dict), r.sent, r.raised)

----------------------------------------------------------------------------
(* handle_outputs and the service_logs section *)

\* the keys of service_logs: Plain("url") is "url", Suffixed("url", 2) is
\* "url_2"; lines 438-440 add the suffix when cindex > 0
Plain(name) == << name >>
Suffixed(name, n) == << name, n >>
Key(name, n) == IF n > 0 THEN Suffixed(name, n) ELSE Plain(name)
LengthKey == Plain("length")

\* str.replace("temp/", user + "/temp/") on the segments of main.tmpUrl
RECURSIVE ReplaceTemp(_, _)
ReplaceTemp(url, user) ==
    IF url = << >> THEN << >>
    ELSE (IF Head(url) = "temp" THEN << user, "temp" >> ELSE << Head(url) >>)
         \o ReplaceTemp(Tail(url), user)

LogUrl(base, dir, file) == [base |-> base, dir |-> dir, file |-> file]
LogTitle(text, file) == [text |-> text, file |-> file]

\* the three fields of one entry, written under the three keys given
PutEntryAt(svc, keys, url, title) ==
    Put(Put(Put(svc, keys[1], url), keys[2], title), keys[3], "related")

\* lines 436-444: the three fields of one entry, under the suffix cindex
PutEntry(svc, cindex, url, title) ==
    PutEntryAt(svc, << Key("url", cindex), Key("title", cindex), Key("rel", cindex) >>,
               url, title)

\* lines 435-445: one entry per tool log, numbered from cindex
RECURSIVE WriteToolLogs(_, _, _, _, _, _)
WriteToolLogs(svc, tool_logs, i, cindex, base, dir) ==
    IF i > Len(tool_logs) THEN svc
    ELSE WriteToolLogs(PutEntry(svc, cindex, LogUrl(base, dir, tool_logs[i]),
                                LogTitle("Tool log", tool_logs[i])),
                       tool_logs, i + 1, cindex + 1, base, dir)

\* lines 417-451: handle_outputs; raised names the exception it re-raises
handle_outputs(in_conf, svc, main, auth_env, lenv, tool_logs) ==
    IF "user" \notin DOMAIN auth_env
    THEN [raised |-> "KeyError", main |-> main, in_conf |-> in_conf, svc |-> svc]
    ELSE LET main1 == [main EXCEPT !.tmpUrl = ReplaceTemp(@, auth_env["user"])]
         IN  IF Len(tool_logs) > 0 /\ ~({"Identifier", "usid"} \subseteq DOMAIN lenv)
             THEN [raised |-> "KeyError", main |-> main1, in_conf |-> in_conf,
                   svc |-> svc]
             ELSE IF Len(tool_logs) = 0 /\ ~in_conf
             THEN [raised |-> "KeyError", main |-> main1, in_conf |-> in_conf,
                   svc |-> svc]
             ELSE LET cindex == IF in_conf THEN 1 ELSE 0
                      dir == IF Len(tool_logs) > 0
                             THEN << lenv["Identifier"], lenv["usid"] >> ELSE << >>
                      written == WriteToolLogs(svc, tool_logs, 1, cindex,
                                               main1.tmpUrl, dir)
                  IN  [raised |-> "", main |-> main1, in_conf |-> TRUE,
                       svc |-> Put(written, LengthKey, Str(Len(tool_logs)))]

----------------------------------------------------------------------------
(* The failure path of the entry function *)

\* runner.get_namespace_name()
NamespaceName == "namespace"

\* lines 506-523: the first guarded block: persist the job log, then add its
\* entry to service_logs; raised names the exception the block swallowed
salvage_job_log(in_conf, svc, main, auth_env, has_runner, started, open_fails) ==
    IF ~has_runner
    THEN [raised |-> "NameError", written |-> FALSE, in_conf |-> in_conf, svc |-> svc]
    ELSE IF open_fails
    THEN [raised |-> "OSError", written |-> FALSE, in_conf |-> in_conf, svc |-> svc]
    ELSE IF ~started
    THEN [raised |-> "AttributeError", written |-> FALSE, in_conf |-> in_conf,
          svc |-> svc]
    ELSE LET svc1 == IF in_conf THEN svc ELSE [x \in {} |-> ""]
             keys == IF LengthKey \in DOMAIN svc1
                     THEN [i \in 1..3 |->
                              Suffixed(<< "url", "title", "rel" >>[i],
                                       svc1[LengthKey].str_of)]
                     ELSE << Plain("url"), Plain("title"), Plain("rel") >>
         IN  IF "user" \notin DOMAIN auth_env
             THEN [raised |-> "KeyError", written |-> TRUE, in_conf |-> TRUE,
                   svc |-> svc1]
             ELSE [raised |-> "", written |-> TRUE, in_conf |-> TRUE,
                   svc |-> Put(PutEntryAt(svc1, keys,
                                          LogUrl(ReplaceTemp(main.tmpUrl, auth_env["user"]),
                                                 << NamespaceName >>, "job.log"),
                                          LogTitle("Job pod log", "job.log")),
                               LengthKey, Str(1))]

\* lines 524-528: the second guarded block: fetch the tool logs and hand them
\* to handle_outputs
salvage_tool_logs(in_conf, svc, main, auth_env, lenv, has_runner, started, fetch_fails, tool_logs) ==
    IF ~has_runner
    THEN [raised |-> "NameError", main |-> main, in_conf |-> in_conf, svc |-> svc]
    ELSE IF ~started
    THEN [raised |-> "AttributeError", main |-> main, in_conf |-> in_conf, svc |-> svc]
    ELSE IF fetch_fails
    THEN [raised |-> "OSError", main |-> main, in_conf |-> in_conf, svc |-> svc]
    ELSE handle_outputs(in_conf, svc, main, auth_env, lenv, tool_logs)

\* traceback.format_exc() at line 529: the exception the outer handler is
\* handling, whatever the guarded blocks raised and swallowed in between
format_exc(handled, last_raised) == handled

\* zoo._(message): the zoo module returns the (translated) text; the stub of
\* lines 18-19 prints it and returns None
NoMessage == [none |-> TRUE]
Message(text, stack) == [none |-> FALSE, text |-> text, stack |-> stack]
zoo_gettext(imported, message) == IF imported THEN message ELSE NoMessage

----------------------------------------------------------------------------
(* The entry function, the handler's constructor and the hooks as actions *)

\* what the environment fixed: never assigned by the program
inputs == << zoo_imported, conf_eoepca, conf_auth_env, workspace_api, register_api,
             engine, store, faults, proxy_writes >>
handler == << http_proxy_env, use_workspace, workspace_catalog_register, username,
              username_source, ades_rx_token >>
locals == << runner_defined, handler_defined, execution_started >>
logs == << conf_service_logs, conf_main >>

NoExc == [type |-> "", origin |-> ""]

\* control passes to the except branch of the entry function (line 504)
Raise(type, origin) ==
    /\ exc' = [type |-> type, origin |-> origin]
    /\ pc' = "except_job_log"

\* lines 457-464: the descriptor is opened and parsed
LoadDescriptor ==
    /\ pc = "start"
    /\ IF faults.main = "descriptor"
       THEN Raise("FileNotFoundError", "descriptor")
       ELSE pc' = "construct_handler" /\ exc' = exc
    /\ UNCHANGED << inputs, handler, locals, logs, environ, conf_lenv,
                    conf_additional_parameters, conf_keys, outputs, output,
                    next_output, requests, reads, salvage, hook_entry, hook_log,
                    env_changes, result >>

\* str.lower() on the values the flag takes
Lower(x) == IF x \in {"true", "True", "TRUE"} THEN "true"
            ELSE IF x \in {"false", "False", "FALSE"} THEN "false" ELSE x

\* lines 94-123 (called at line 466): the constructor of the handler
Construct ==
    /\ pc = "construct_handler"
    /\ IF faults.main = "handler"
       THEN /\ Raise("AttributeError", "constructor")
            /\ UNCHANGED << handler, handler_defined, conf_additional_parameters,
                            conf_keys >>
       ELSE LET url == Get(conf_eoepca, "workspace_url", "")
                prefix == Get(conf_eoepca, "workspace_prefix", "")
                ws == Truthy(url) /\ Truthy(prefix)
            IN  /\ http_proxy_env' = Get(environ, "HTTP_PROXY", NoneVal)
                /\ use_workspace' = ws
                /\ workspace_catalog_register' =
                       (ws /\ Lower(Get(conf_eoepca, "workspace_catalog_register",
                                        "false")) = "true")
                /\ username' = NoneVal
                /\ username_source' = username_source
                /\ ades_rx_token' = Get(conf_auth_env, "jwt", EmptyToken)
                /\ conf_keys' = conf_keys \cup {"additional_parameters"}
                /\ conf_additional_parameters' =
                       init_config_defaults(conf_additional_parameters, environ)
                /\ handler_defined' = TRUE
                /\ pc' = "make_runner" /\ exc' = exc
    /\ UNCHANGED << inputs, runner_defined, execution_started, logs, environ,
                    conf_lenv, outputs, output, next_output, requests, reads,
                    salvage, hook_entry, hook_log, env_changes, result >>

\* lines 468-486: the runner is built, the working directory made and entered
MakeRunner ==
    /\ pc = "make_runner"
    /\ runner_defined' = (faults.main # "runner")
    /\ IF faults.main = "runner" THEN Raise("RuntimeError", "runner")
       ELSE IF faults.main = "workdir" THEN Raise("OSError", "workdir")
       ELSE pc' = "pre_execution_hook" /\ exc' = exc
    /\ UNCHANGED << inputs, handler, handler_defined, execution_started, logs,
                    environ, conf_lenv, conf_additional_parameters, conf_keys,
                    outputs, output, next_output, requests, reads, salvage,
                    hook_entry, hook_log, env_changes, result >>

\* the process environment is shared: between the constructor and a hook,
\* other code of the process may set or delete HTTP_PROXY
EnvChange ==
    /\ pc \in {"pre_execution_hook", "post_execution_hook"}
    /\ env_changes < MaxEnvChanges
    /\ \E v \in proxy_writes :
          /\ environ' = IF v = Absent THEN Pop(environ, "HTTP_PROXY")
                        ELSE Put(environ, "HTTP_PROXY", v)
          /\ environ' # environ
    /\ env_changes' = env_changes + 1
    /\ UNCHANGED << pc, inputs, handler, locals, logs, conf_lenv,
                    conf_additional_parameters, conf_keys, outputs, output,
                    next_output, requests, reads, exc, salvage, hook_entry,
                    hook_log, result >>

HookRecord(name, outcome, before, after) ==
    [hook |-> name, outcome |-> outcome, before |-> before, after |-> after]

\* the requests of one call, tagged with the output they were sent for
RECURSIVE Tagged(_, _)
Tagged(sent, o) ==
    IF sent = << >> THEN << >>
    ELSE << [req |-> Head(sent), output |-> o] >> \o Tagged(Tail(sent), o)

\* lines 125-204: pre_execution_hook, called first by runner.execute (line 488)
PreHook ==
    /\ pc = "pre_execution_hook"
    /\ LET env1 == unset_http_proxy_env(environ)
           r == pre_execution_body(env1, ades_rx_token, username, use_workspace,
                                   conf_eoepca, conf_additional_parameters,
                                   conf_lenv, workspace_api)
           env2 == restore_http_proxy_env(env1, http_proxy_env)
       IN  /\ username' = r.username
           /\ username_source' = r.source
           /\ use_workspace' = r.use_workspace
           /\ conf_additional_parameters' = r.ap
           /\ requests' = requests \o Tagged(r.sent, 0)
           /\ environ' = env2
           /\ hook_log' = Append(hook_log,
                  HookRecord("pre", IF r.raised = "" THEN "returned" ELSE "raised",
                             ProxyOf(environ), ProxyOf(env2)))
           /\ IF r.raised = "" THEN pc' = "engine_run" /\ exc' = exc
              ELSE Raise(r.raised, "pre_execution_hook")
    /\ UNCHANGED << inputs, http_proxy_env, workspace_catalog_register,
                    ades_rx_token, locals, logs, conf_lenv, conf_keys, outputs,
                    output, next_output, reads, salvage, hook_entry, env_changes,
                    result >>

\* line 488: the external engine runs the workflow and returns its outputs
EngineRun ==
    /\ pc = "engine_run"
    /\ execution_started' = TRUE
    /\ IF faults.main = "engine"
       THEN Raise("RuntimeError", "engine") /\ output' = output
       ELSE pc' = "handle_outputs" /\ exc' = exc /\ output' = engine.output
    /\ UNCHANGED << inputs, handler, runner_defined, handler_defined, logs,
                    environ, conf_lenv, conf_additional_parameters, conf_keys,
                    outputs, next_output, requests, reads, salvage, hook_entry,
                    hook_log, env_changes, result >>

\* lines 407-451: handle_outputs, called by runner.execute with the tool logs
HandleOutputs ==
    /\ pc = "handle_outputs"
    /\ LET r == handle_outputs("service_logs" \in conf_keys, conf_service_logs,
                               conf_main, conf_auth_env, conf_lenv, engine.tool_logs)
       IN  /\ conf_main' = r.main
           /\ conf_service_logs' = r.svc
           /\ conf_keys' = IF r.in_conf THEN conf_keys \cup {"service_logs"}
                           ELSE conf_keys
           /\ IF r.raised = "" THEN pc' = "post_execution_hook" /\ exc' = exc
              ELSE Raise(r.raised, "handle_outputs")
    /\ UNCHANGED << inputs, handler, locals, environ, conf_lenv,
                    conf_additional_parameters, outputs, output, next_output,
                    requests, reads, salvage, hook_entry, hook_log, env_changes,
                    result >>

\* lines 216-219: os.environ[name] = value raises TypeError on a None value,
\* after the assignments before it were made
AwsNames == << << "AWS_S3_ENDPOINT", "STAGEOUT_AWS_SERVICEURL" >>,
               << "AWS_ACCESS_KEY_ID", "STAGEOUT_AWS_ACCESS_KEY_ID" >>,
               << "AWS_SECRET_ACCESS_KEY", "STAGEOUT_AWS_SECRET_ACCESS_KEY" >>,
               << "AWS_REGION", "STAGEOUT_AWS_REGION" >> >>

RECURSIVE PublishCredentials(_, _, _)
PublishCredentials(env, ap, i) ==
    IF i > Len(AwsNames) THEN [raised |-> "", env |-> env]
    ELSE IF ap[AwsNames[i][2]] = NoneVal THEN [raised |-> "TypeError", env |-> env]
    ELSE PublishCredentials(Put(env, AwsNames[i][1], ap[AwsNames[i][2]]), ap, i + 1)

\* lines 207-221: post_execution_hook up to the loop over the outputs
PostEnter ==
    /\ pc = "post_execution_hook"
    /\ LET env1 == unset_http_proxy_env(environ)
           r == PublishCredentials(env1, conf_additional_parameters, 1)
           env2 == restore_http_proxy_env(r.env, http_proxy_env)
       IN  IF r.raised = ""
           THEN /\ environ' = r.env
                /\ hook_entry' = ProxyOf(environ)
                /\ next_output' = 1
                /\ pc' = "map_outputs" /\ exc' = exc
                /\ hook_log' = hook_log
           ELSE /\ environ' = env2
                /\ hook_entry' = hook_entry
                /\ next_output' = next_output
                /\ hook_log' = Append(hook_log,
                       HookRecord("post", "raised", ProxyOf(environ), ProxyOf(env2)))
                /\ Raise(r.raised, "post_execution_hook")
    /\ UNCHANGED << inputs, handler, locals, logs, conf_lenv,
                    conf_additional_parameters, conf_keys, outputs, output,
                    requests, reads, salvage, env_changes, result >>

\* a variant that sends every output through setOutput
AlwaysMimeType(entry) == TRUE

\* line 224: the output declares a mimeType
HasMimeType(entry) == "mimeType" \in DOMAIN entry

\* lines 222-228 (and 230-236 when the body raises): one pass of the loop over
\* the declared outputs; a call of setOutput that does not end leaves the hook
\* where it is
MapOutput ==
    /\ pc = "map_outputs"
    /\ next_output <= NumOutputs
    /\ LET o == next_output
           envR == restore_http_proxy_env(environ, http_proxy_env)
           failed(type) ==
               /\ environ' = envR
               /\ hook_log' = Append(hook_log,
                      HookRecord("post", "raised", hook_entry, ProxyOf(envR)))
               /\ Raise(type, "post_execution_hook")
               /\ next_output' = next_output
           passed ==
               /\ environ' = environ
               /\ hook_log' = hook_log
               /\ pc' = pc /\ exc' = exc
               /\ next_output' = next_output + 1
       IN  IF o \notin DOMAIN output
           THEN failed("KeyError") /\ UNCHANGED << outputs, output, requests, reads >>
           ELSE IF HasMimeType(outputs[o])
           THEN LET r == setOutput(outputs[o], output[o], store,
                                   conf_additional_parameters,
                                   workspace_catalog_register, conf_eoepca,
                                   username, ades_rx_token, register_api)
                IN  IF r.diverges
                    THEN UNCHANGED << environ, hook_log, pc, exc, next_output,
                                      outputs, output, requests, reads >>
                    ELSE /\ outputs' = [outputs EXCEPT ![o] = r.entry]
                         /\ output' = [output EXCEPT ![o] = r.value]
                         /\ requests' = requests \o Tagged(r.sent, o)
                         /\ reads' = reads \o Tagged(r.reads, o)
                         /\ IF r.raised = "" THEN passed ELSE failed(r.raised)
           ELSE /\ outputs' = [outputs EXCEPT ![o] = Put(@, "value", Str(output[o]))]
                /\ passed
                /\ UNCHANGED << output, requests, reads >>
    /\ UNCHANGED << inputs, handler, locals, logs, conf_lenv,
                    conf_additional_parameters, conf_keys, salvage, hook_entry,
                    env_changes, result >>

\* lines 235-236: the loop is over, the finally clause restores the proxy
PostExit ==
    /\ pc = "map_outputs"
    /\ next_output > NumOutputs
    /\ environ' = restore_http_proxy_env(environ, http_proxy_env)
    /\ hook_log' = Append(hook_log,
           HookRecord("post", "returned", hook_entry, ProxyOf(environ')))
    /\ pc' = "runner_finish"
    /\ UNCHANGED << inputs, handler, locals, logs, conf_lenv,
                    conf_additional_parameters, conf_keys, outputs, output,
                    next_output, requests, reads, exc, salvage, hook_entry,
                    env_changes, result >>

\* line 488: runner.execute cleans up and returns the exit status
RunnerFinish ==
    /\ pc = "runner_finish"
    /\ IF faults.main = "finish" THEN Raise("RuntimeError", "finish")
       ELSE pc' = "return_status" /\ exc' = exc
    /\ UNCHANGED << inputs, handler, locals, logs, environ, conf_lenv,
                    conf_additional_parameters, conf_keys, outputs, output,
                    next_output, requests, reads, salvage, hook_entry, hook_log,
                    env_changes, result >>

\* lines 490-502: the exit status decides what the entry function returns
ReturnStatus ==
    /\ pc = "return_status"
    /\ IF engine.status = SERVICE_SUCCEEDED
       THEN /\ outputs' = [o \in DOMAIN outputs |->
                              IF "collection" \in DOMAIN outputs[o]
                              THEN Put(outputs[o], "value",
                                       Dumps(outputs[o]["collection"]))
                              ELSE outputs[o]]
            /\ conf_lenv' = conf_lenv
            /\ result' = SERVICE_SUCCEEDED
       ELSE /\ outputs' = outputs
            /\ conf_lenv' = Put(conf_lenv, "message",
                   zoo_gettext(zoo_imported, Message("Execution failed", NoExc)))
            /\ result' = SERVICE_FAILED
    /\ pc' = "done"
    /\ UNCHANGED << inputs, handler, locals, logs, environ,
                    conf_additional_parameters, conf_keys, output, next_output,
                    requests, reads, exc, salvage, hook_entry, hook_log,
                    env_changes >>

\* lines 504-523: the except branch, first guarded block
SalvageJobLog ==
    /\ pc = "except_job_log"
    /\ LET r == salvage_job_log("service_logs" \in conf_keys, conf_service_logs,
                                conf_main, conf_auth_env, runner_defined,
                                execution_started, faults.job_log)
       IN  /\ conf_service_logs' = r.svc
           /\ conf_keys' = IF r.in_conf THEN conf_keys \cup {"service_logs"}
                           ELSE conf_keys
           /\ salvage' = [salvage EXCEPT !.job_log = IF r.raised = "" THEN "done"
                                                     ELSE "failed",
                                         !.job_log_file = r.written,
                                         !.last_raised =
                                             IF r.raised = "" THEN @
                                             ELSE [type |-> r.raised,
                                                   origin |-> "job_log"]]
    /\ pc' = "except_tool_logs"
    /\ UNCHANGED << inputs, handler, locals, conf_main, environ, conf_lenv,
                    conf_additional_parameters, outputs, output, next_output,
                    requests, reads, exc, hook_entry, hook_log, env_changes,
                    result >>

\* lines 524-528: the except branch, second guarded block
SalvageToolLogs ==
    /\ pc = "except_tool_logs"
    /\ LET r == salvage_tool_logs("service_logs" \in conf_keys, conf_service_logs,
                                  conf_main, conf_auth_env, conf_lenv,
                                  runner_defined, execution_started,
                                  faults.tool_logs, engine.tool_logs)
       IN  /\ conf_main' = r.main
           /\ conf_service_logs' = r.svc
           /\ conf_keys' = IF r.in_conf THEN conf_keys \cup {"service_logs"}
                           ELSE conf_keys
           /\ salvage' = [salvage EXCEPT !.tool_logs = IF r.raised = "" THEN "done"
                                                       ELSE "failed",
                                         !.last_raised =
                                             IF r.raised = "" THEN @
                                             ELSE [type |-> r.raised,
                                                   origin |-> "tool_logs"]]
    /\ pc' = "except_message"
    /\ UNCHANGED << inputs, handler, locals, environ, conf_lenv,
                    conf_additional_parameters, outputs, output, next_output,
                    requests, reads, exc, hook_entry, hook_log, env_changes,
                    result >>

\* lines 529-532: the failure message is stored and SERVICE_FAILED returned
StoreMessage ==
    /\ pc = "except_message"
    /\ conf_lenv' = Put(conf_lenv, "message",
           zoo_gettext(zoo_imported,
                       Message("Exception during execution...",
                               format_exc(exc, salvage.last_raised))))
    /\ result' = SERVICE_FAILED
    /\ salvage' = [salvage EXCEPT !.message = "done"]
    /\ pc' = "done"
    /\ UNCHANGED << inputs, handler, locals, logs, environ,
                    conf_additional_parameters, conf_keys, outputs, output,
                    next_output, requests, reads, exc, hook_entry, hook_log,
                    env_changes >>

Next ==
    \/ LoadDescriptor
    \/ Construct
    \/ MakeRunner
    \/ EnvChange
    \/ PreHook
    \/ EngineRun
    \/ HandleOutputs
    \/ PostEnter
    \/ MapOutput
    \/ PostExit
    \/ RunnerFinish
    \/ ReturnStatus
    \/ SalvageJobLog
    \/ SalvageToolLogs
    \/ StoreMessage

----------------------------------------------------------------------------
(* Initial states: what the environment may hand to the entry function *)

\* values of the staging variables when the process environment sets them
EnvStageValue ==
    [k \in StageKeys |->
        CASE k \in {"STAGEIN_AWS_SERVICEURL", "STAGEOUT_AWS_SERVICEURL"} -> "http://env-s3"
          [] k \in {"STAGEIN_AWS_ACCESS_KEY_ID", "STAGEOUT_AWS_ACCESS_KEY_ID"} -> "env-access"
          [] k \in {"STAGEIN_AWS_SECRET_ACCESS_KEY", "STAGEOUT_AWS_SECRET_ACCESS_KEY"}
                -> "env-secret"
          [] k \in {"STAGEIN_AWS_REGION", "STAGEOUT_AWS_REGION"} -> "env-region"
          [] OTHER -> "env-bucket"]

MkEnviron(proxy, ns, staged) ==
    LET e0 == IF staged THEN [k \in StageKeys |-> EnvStageValue[k]] ELSE EmptyDict
        e1 == IF proxy = Absent THEN e0 ELSE Put(e0, "HTTP_PROXY", proxy)
    IN  IF ns = Absent THEN e1 ELSE Put(e1, "SERVICES_NAMESPACE", ns)

Environs(proxies, namespaces, stagings) ==
    { MkEnviron(p, n, g) : p \in proxies, n \in namespaces, g \in stagings }

\* token payloads: any subset of the three claims, each empty or a name
ClaimNames == [k \in {"username", "user_name", "preferred_username"} |->
                  CASE k = "username" -> "alice"
                    [] k = "user_name" -> "bob"
                    [] OTHER -> "carol"]

Payloads ==
    UNION { { f \in [S -> {"", "alice", "bob", "carol"}] :
                \A k \in S : f[k] \in {"", ClaimNames[k]} } :
            S \in SUBSET DOMAIN ClaimNames }

AllTokens == {EmptyToken, MalformedToken} \cup { Jwt(f) : f \in Payloads }

AuthEnv(tok) == [k \in {"jwt", "user"} |-> IF k = "jwt" THEN tok ELSE "zoo-user"]

MkEoepca(url, prefix, reg) ==
    [k \in {"workspace_url", "workspace_prefix", "workspace_catalog_register"} |->
        CASE k = "workspace_url" -> url
          [] k = "workspace_prefix" -> prefix
          [] OTHER -> reg]

WorkspaceOn == MkEoepca("https://workspace-api", "ws", "false")
WorkspaceRegister == MkEoepca("https://workspace-api", "ws", "True")
WorkspaceOff == MkEoepca("", "ws", "true")

\* the credentials a workspace holds
WsValue ==
    [k \in CredKeys |->
        CASE k = "endpoint" -> "https://ws-s3"
          [] k = "access" -> "ws-access"
          [] k = "secret" -> "ws-secret"
          [] k = "region" -> "ws-region"
          [] OTHER -> "ws-bucket"]

CredSets == { [k \in S |-> WsValue[k]] :
              S \in {CredKeys, CredKeys \ {"region"}, CredKeys \ {"bucketname"}, {}} }

AllReplies ==
    {NetworkError}
    \cup { Reply(s, b) : s \in {200, 304, 404, 503},
                         b \in {NotJson, JsonWithout} \cup { JsonWith(c) : c \in CredSets } }

GoodReply == Reply(200, JsonWith([k \in CredKeys |-> WsValue[k]]))

Api(json, item) == [json |-> json, item |-> item]

\* catalog documents
Native == [id |-> "native-id", href |-> "s3://bucket/collection.json"]

MkItem(i) ==
    [id |-> << "item", i >>,
     collection_id |-> "native-id",
     assets |-> [a \in { << "asset", j >> : j \in 1..i } |->
                    [k \in {"href"} |-> "s3://bucket/data"]]]

Items(n) == [i \in 1..n |-> MkItem(i)]

AllDocs ==
    {Unreadable, ItemDoc}
    \cup { CatalogDoc(c, Items(n)) : c \in {<< >>, << Native >>}, n \in 0..MaxItems }

K1 == Path(TRUE, "k1")
K2 == Path(TRUE, "k2")

\* what the engine may return for the first output, and for the others
FirstOutValues ==
    { NoneOut, ScalarOut("42"), DictOut(K1), DictOut(Path(FALSE, "k1")),
      ListOut(<< >>), ListOut(<< NoneEl >>), ListOut(<< RefEl(K1) >>),
      ListOut(<< RefEl(K1), RefEl(K2) >>), ListOut(<< RefEl(K1), NoneEl >>) }

OtherOutValues == { ScalarOut("42"), DictOut(K2) }

EngineOutputs ==
    { f \in [1..NumOutputs -> FirstOutValues \cup OtherOutValues] :
        /\ f[1] \in FirstOutValues
        /\ \A o \in 2..NumOutputs : f[o] \in OtherOutValues }
    \cup { [o \in 1..(NumOutputs - 1) |-> DictOut(K1)] }

ToolLogs(n) == [i \in 1..n |-> << "tool", i >>]

Engines(statuses, outs, counts) ==
    { [status |-> st, output |-> f, tool_logs |-> ToolLogs(n)] :
        st \in statuses, f \in outs, n \in counts }

WithMime == [k \in {"mimeType"} |-> "application/json"]
WithoutMime == [k \in {"title"} |-> "a plain output"]

Faults(mains, job_logs, tool_logs) ==
    { [main |-> m, job_log |-> j, tool_logs |-> t] :
        m \in mains, j \in job_logs, t \in tool_logs }

MainFaults == {"none", "descriptor", "handler", "runner", "workdir", "engine", "finish"}

\* the configuration as the caller hands it over: with or without the section
\* additional_parameters
InitialConfs ==
    { [keys |-> {}, ap |-> EmptyDict],
      [keys |-> {"additional_parameters"}, ap |-> [k \in {"custom"} |-> "kept"]] }

Lenv == [k \in {"usid", "Identifier"} |-> IF k = "usid" THEN "job-usid" ELSE "process"]

InitWith(u) ==
    /\ pc = "start"
    /\ zoo_imported \in u.zoo
    /\ environ \in u.environ
    /\ proxy_writes = u.proxy_writes
    /\ conf_eoepca \in u.eoepca
    /\ conf_auth_env \in u.auth_env
    /\ conf_lenv \in u.lenv
    /\ conf_main = [tmpUrl |-> << "http://zoo", "temp" >>, tmpPath |-> "/tmp/zTmp"]
    /\ \E c \in u.conf : conf_keys = c.keys /\ conf_additional_parameters = c.ap
    /\ conf_service_logs = [x \in {} |-> ""]
    /\ outputs \in u.outputs
    /\ workspace_api \in u.replies
    /\ register_api \in u.apis
    /\ engine \in u.engines
    /\ store \in u.stores
    /\ faults \in u.faults
    /\ http_proxy_env = NoneVal
    /\ use_workspace = FALSE
    /\ workspace_catalog_register = FALSE
    /\ username = NoneVal
    /\ username_source = NoneVal
    /\ ades_rx_token = EmptyToken
    /\ runner_defined = FALSE
    /\ handler_defined = FALSE
    /\ execution_started = FALSE
    /\ output = [x \in {} |-> NoneOut]
    /\ next_output = 1
    /\ requests = << >>
    /\ reads = << >>
    /\ exc = NoExc
    /\ salvage = [job_log |-> "pending", job_log_file |-> FALSE,
                  tool_logs |-> "pending", message |-> "pending",
                  last_raised |-> NoExc]
    /\ hook_entry = [present |-> FALSE, value |-> ""]
    /\ hook_log = << >>
    /\ env_changes = 0
    /\ result = 0

\* a small universe that every specification refines in a few fields
Base ==
    [zoo |-> {TRUE},
     environ |-> Environs({"http://proxy-a"}, {"ns-user"}, {FALSE}),
     proxy_writes |-> {"http://proxy-b"},
     eoepca |-> {WorkspaceOn},
     auth_env |-> {AuthEnv(Jwt([k \in {"username"} |-> "alice"]))},
     lenv |-> {Lenv},
     conf |-> {[keys |-> {}, ap |-> EmptyDict]},
     outputs |-> {[o \in 1..NumOutputs |-> IF o = 1 THEN WithMime ELSE WithoutMime]},
     replies |-> {GoodReply},
     apis |-> {Api("ok", "ok")},
     engines |-> Engines({SERVICE_SUCCEEDED},
                         {[o \in 1..NumOutputs |->
                              IF o = 1 THEN DictOut(K1) ELSE ScalarOut("42")]},
                         {1}),
     stores |-> {[k \in {"k1", "k2"} |-> CatalogDoc(<< Native >>, Items(1))]},
     faults |-> Faults({"none", "engine"}, {FALSE}, {FALSE})]

\* the post-execution side: declared outputs, engine outputs, documents
Init ==
    InitWith([Base EXCEPT
        !.eoepca = {WorkspaceOn, WorkspaceRegister},
        !.outputs = [1..NumOutputs -> {WithMime, WithoutMime}],
        !.engines = Engines({SERVICE_SUCCEEDED}, EngineOutputs, {1}),
        !.stores = { [k \in {"k1", "k2"} |-> IF k = "k1" THEN d ELSE e] :
                     d \in AllDocs, e \in {Unreadable, CatalogDoc(<< Native >>, << >>)} },
        !.faults = Faults({"none"}, {FALSE}, {FALSE})])

Spec == Init /\ [][Next]_vars

\* the process environment: HTTP_PROXY at construction and what is written later
InitProxy ==
    InitWith([Base EXCEPT
        !.environ = Environs({Absent, "http://proxy-a"}, {"ns-user"}, {FALSE}),
        !.proxy_writes = {Absent, "", "http://proxy-a", "http://proxy-b"},
        !.replies = {GoodReply, NetworkError},
        !.faults = Faults({"none", "engine"}, {FALSE}, {FALSE})])

SpecProxy == InitProxy /\ [][Next]_vars

\* identity: every token, every namespace value
InitIdentity ==
    InitWith([Base EXCEPT
        !.environ = Environs({"http://proxy-a"}, {Absent, "", "ns-user"}, {FALSE}),
        !.eoepca = {WorkspaceOn, WorkspaceOff},
        !.auth_env = { AuthEnv(t) : t \in AllTokens } \cup {[k \in {"user"} |-> "zoo-user"]},
        !.replies = {GoodReply, Reply(404, NotJson)}])

SpecIdentity == InitIdentity /\ [][Next]_vars

\* the workspace lookup: every reply of the workspace API
InitWorkspace ==
    InitWith([Base EXCEPT
        !.environ = Environs({"http://proxy-a"}, {"ns-user"}, {FALSE, TRUE}),
        !.eoepca = {WorkspaceOn, WorkspaceRegister, WorkspaceOff},
        !.auth_env = {AuthEnv(EmptyToken), AuthEnv(Jwt([k \in {"username"} |-> "alice"]))},
        !.conf = InitialConfs,
        !.replies = AllReplies])

SpecWorkspace == InitWorkspace /\ [][Next]_vars

\* the failure path: every place the entry function can fail, with and
\* without the zoo module, with failing and working salvage steps
InitFailure ==
    InitWith([Base EXCEPT
        !.zoo = {TRUE, FALSE},
        !.replies = {GoodReply, NetworkError},
        !.engines = Engines({SERVICE_SUCCEEDED, SERVICE_FAILED},
                            {[o \in 1..NumOutputs |->
                                 IF o = 1 THEN DictOut(K1) ELSE ScalarOut("42")],
                             [o \in 1..NumOutputs |-> NoneOut]},
                            0..MaxToolLogs),
        !.faults = Faults(MainFaults, {FALSE, TRUE}, {FALSE, TRUE})])

SpecFailure == InitFailure /\ [][Next]_vars

\* registration: every outcome of the two registration POSTs
InitRegistration ==
    InitWith([Base EXCEPT
        !.eoepca = {WorkspaceOn, WorkspaceRegister},
        !.outputs = [1..NumOutputs -> {WithMime, WithoutMime}],
        !.apis = { Api(a, b) : a, b \in {"ok", "status", "error"} },
        !.engines = Engines({SERVICE_SUCCEEDED},
                            {[o \in 1..NumOutputs |->
                                 IF o = 1 THEN DictOut(K1) ELSE DictOut(K2)]},
                            {1}),
        !.stores = { [k \in {"k1", "k2"} |->
                         IF k = "k1" THEN d ELSE CatalogDoc(<< Native >>, << >>)] :
                     d \in { CatalogDoc(<< Native >>, Items(n)) : n \in 0..MaxItems }
                           \cup { CatalogDoc(<< >>, Items(1)), Unreadable } }])

SpecRegistration == InitRegistration /\ [][Next]_vars

\* the hooks over every kind of document, run by an interpreter that keeps
\* executing a hook it has entered
InitScan ==
    InitWith([Base EXCEPT
        !.outputs = { [o \in 1..NumOutputs |-> WithMime],
                      [o \in 1..NumOutputs |-> IF o = 1 THEN WithMime ELSE WithoutMime] },
        !.engines = Engines({SERVICE_SUCCEEDED},
                            {[o \in 1..NumOutputs |->
                                 IF o = 1 THEN ListOut(<< RefEl(K2), RefEl(K1) >>)
                                 ELSE DictOut(K1)]},
                            {1}),
        !.stores = { [k \in {"k1", "k2"} |-> IF k = "k1" THEN d ELSE e] :
                     d \in AllDocs,
                     e \in {CatalogDoc(<< >>, Items(MaxItems)),
                            CatalogDoc(<< Native >>, << >>)} }])

\* a step of a hook: the interpreter does not stop inside a hook
HookStep == PreHook \/ PostEnter \/ MapOutput \/ PostExit

HookFairness == WF_vars(HookStep)

SpecScan == InitScan /\ [][Next]_vars /\ HookFairness

----------------------------------------------------------------------------
(* Claims *)

\* the record of the pre_execution_hook call, once it has finished
PreDone == \E i \in DOMAIN hook_log : hook_log[i].hook = "pre"
PreReturned ==
    \E i \in DOMAIN hook_log : hook_log[i].hook = "pre" /\ hook_log[i].outcome = "returned"

\* the workspace GET was issued
GetIssued == \E i \in DOMAIN requests : requests[i].req.method = "GET"

\* every STAGEOUT_* value is the default init_config_defaults applied
StageOutAtDefaults ==
    \A k \in StageOutKeys :
        /\ k \in DOMAIN conf_additional_parameters
        /\ conf_additional_parameters[k] = DefaultOf(environ, k)

\* C1: after every call of pre_execution_hook or post_execution_hook, returned
\* or raised, HTTP_PROXY has the presence and the value it had just before the
\* call.
C1_ProxyRoundTrip ==
    \A i \in DOMAIN hook_log : hook_log[i].after = hook_log[i].before

\* C2: when workspace mode is enabled and the workspace GET fails (a non-2xx
\* status or a network error), pre_execution_hook does not raise and every
\* STAGEOUT_* value equals its default.
FailedGet(reply) == reply.net = "error" \/ reply.status \notin 200..299

C2_FailedLookupKeepsDefaults ==
    (PreDone /\ GetIssued /\ FailedGet(workspace_api))
        => (PreReturned /\ StageOutAtDefaults)

\* C3: when the workspace GET returns a success status with a malformed body
\* (not JSON, no storage.credentials, or credentials lacking one of the five
\* fields), pre_execution_hook does not raise, workspace mode is disabled and
\* the five STAGEOUT_* values equal the defaults.
MalformedBody(body) ==
    \/ ~body.json
    \/ ~body.has_creds
    \/ DOMAIN body.creds # CredKeys

C3_MalformedBodyFallsBack ==
    (/\ PreDone /\ GetIssued
     /\ workspace_api.net = "ok"
     /\ workspace_api.status \in 200..299
     /\ MalformedBody(workspace_api.body))
        => (PreReturned /\ ~use_workspace /\ StageOutAtDefaults)

\* C10: if neither the token nor the namespace yields a username,
\* pre_execution_hook issues no workspace GET and completes without raising.
C10_NoLookupWithoutUsername ==
    (PreDone /\ ades_rx_token.kind # "malformed" /\ ~Truthy(username))
        => (~GetIssued /\ PreReturned)

\* the claim of highest priority the payload contains, None when it has none
PriorityClaim(tok) ==
    IF tok.kind # "jwt" THEN NoneVal
    ELSE IF "username" \in DOMAIN tok.payload THEN tok.payload["username"]
    ELSE IF "user_name" \in DOMAIN tok.payload THEN tok.payload["user_name"]
    ELSE IF "preferred_username" \in DOMAIN tok.payload
    THEN tok.payload["preferred_username"]
    ELSE NoneVal

HasClaim(tok) ==
    tok.kind = "jwt"
    /\ DOMAIN tok.payload \cap {"username", "user_name", "preferred_username"} # {}

NamespaceValue == Get(environ, "SERVICES_NAMESPACE", NoneVal)

\* C9 as stated: for every payload containing one of the three claims the
\* resolved username is the value of the first one it contains; the namespace
\* value is used only when there is no token or the payload contains none of
\* them; the username is absent exactly when neither source yields a value.
C9_FirstClaimWins ==
    (PreDone /\ ades_rx_token.kind # "malformed")
        => /\ HasClaim(ades_rx_token)
                 => \/ username = PriorityClaim(ades_rx_token)
                    \/ ~Truthy(username) /\ ~Truthy(PriorityClaim(ades_rx_token))
           /\ username_source = "Path-Prefix" => ~HasClaim(ades_rx_token)
           /\ ~Truthy(username)
                 <=> (~Truthy(PriorityClaim(ades_rx_token)) /\ ~Truthy(NamespaceValue))

\* C9 amended: when the first claim the payload contains (in the order
\* username, user_name, preferred_username) is non-empty, the resolved
\* username is that value; the namespace value is used only when there is no
\* token, the payload contains none of the three claims or the first one it
\* contains is empty (later claims are then not consulted); the username is
\* absent (None or empty) exactly when neither source yields a non-empty value.
C9_FirstNonEmptyClaimWins ==
    (PreDone /\ ades_rx_token.kind # "malformed")
        => /\ Truthy(PriorityClaim(ades_rx_token))
                 => (username = PriorityClaim(ades_rx_token) /\ username_source = "JWT")
           /\ ~Truthy(PriorityClaim(ades_rx_token)) => username = NamespaceValue
           /\ username_source = "Path-Prefix"
                 => (~Truthy(PriorityClaim(ades_rx_token)) /\ username = NamespaceValue)
           /\ ~Truthy(username)
                 <=> (~Truthy(PriorityClaim(ades_rx_token)) /\ ~Truthy(NamespaceValue))

\* a token with two non-empty claims was resolved to the one of higher priority
C9_Witness ==
    /\ PreDone
    /\ ades_rx_token.kind = "jwt"
    /\ {"user_name", "preferred_username"} \subseteq DOMAIN ades_rx_token.payload
    /\ "username" \notin DOMAIN ades_rx_token.payload
    /\ ades_rx_token.payload["user_name"] = "bob"
    /\ ades_rx_token.payload["preferred_username"] = "carol"
    /\ Truthy(NamespaceValue)
    /\ username = "bob"

\* the outputs, reads and requests of the post-execution side
StoredCollection(o) ==
    IF "collection" \in DOMAIN outputs[o] THEN outputs[o]["collection"] ELSE Sentinel

ReadsOf(o) == { i \in DOMAIN reads : reads[i].output = o }
RequestsOf(o) == { i \in DOMAIN requests : requests[i].output = o }

\* C5: every collection stored in an output carries the id
\* additional_parameters.collection_id, which is the job's lenv.usid, whatever
\* id the source document carried.
C5_CollectionIdIsJobId ==
    \A o \in DOMAIN outputs :
        StoredCollection(o) # Sentinel
            => /\ "collection_id" \in DOMAIN conf_additional_parameters
               /\ StoredCollection(o).id = conf_additional_parameters["collection_id"]
               /\ StoredCollection(o).id = Get(conf_lenv, "usid", "")

\* a collection read from a document with another id was stored under the job's id
C5_Witness ==
    \E o \in DOMAIN outputs :
        /\ StoredCollection(o) # Sentinel
        /\ StoredCollection(o).href = Native.href
        /\ Native.id # "job-usid"
        /\ StoredCollection(o).id = "job-usid"

\* the document an output's only catalog read returned holds no collection
\* but at least one item
ItemsOnlyRead(i) ==
    /\ ReadsOf(reads[i].output) = {i}
    /\ ~ReadFails(store, reads[i].req)
    /\ store[reads[i].req.key].kind = "catalog"
    /\ Len(store[reads[i].req.key].collections) = 0
    /\ Len(store[reads[i].req.key].items) >= 1

StorageInjected(asset) ==
    /\ {"storage:platform", "storage:requester_pays", "storage:tier",
        "storage:region", "storage:endpoint"} \subseteq DOMAIN asset
    /\ asset["storage:platform"] = "EOEPCA"
    /\ asset["storage:requester_pays"] = FALSE
    /\ asset["storage:tier"] = "Standard"
    /\ asset["storage:region"] = conf_additional_parameters["STAGEOUT_AWS_REGION"]
    /\ asset["storage:endpoint"] = conf_additional_parameters["STAGEOUT_AWS_SERVICEURL"]

\* C6: setOutput on a readable document with no collection and one or more
\* items stores a synthetic collection holding every item of the document,
\* each stamped with collection_id and each asset carrying the storage fields.
C6_ItemsBecomeCollection ==
    \A i \in DOMAIN reads :
        ItemsOnlyRead(i)
            => LET doc == store[reads[i].req.key]
                   col == StoredCollection(reads[i].output)
               IN  /\ col # Sentinel
                   /\ Len(col.features) = Len(doc.items)
                   /\ \A j \in DOMAIN col.features :
                        /\ col.features[j].id = doc.items[j].id
                        /\ col.features[j].collection_id
                              = conf_additional_parameters["collection_id"]
                        /\ DOMAIN col.features[j].assets = DOMAIN doc.items[j].assets
                        /\ \A a \in DOMAIN col.features[j].assets :
                              StorageInjected(col.features[j].assets[a])

FailedReads == { i \in DOMAIN reads : ReadFails(store, reads[i].req) }

\* C7: when the catalog document of an output cannot be loaded, setOutput
\* returns without raising: the output holds the empty-collection sentinel, no
\* registration request was sent for it, and the loop has moved on to the
\* outputs after it.
C7_ReadFailureIsRecoverable ==
    \A i \in FailedReads :
        /\ "collection" \in DOMAIN outputs[reads[i].output]
        /\ outputs[reads[i].output]["collection"] = Sentinel
        /\ RequestsOf(reads[i].output) = {}
        /\ next_output > reads[i].output

\* the first output's document could not be loaded and a later output was mapped
C7_Witness ==
    /\ \E i \in FailedReads : reads[i].output = 1
    /\ outputs[1]["collection"] = Sentinel
    /\ \E o \in DOMAIN outputs : o > 1 /\ "value" \in DOMAIN outputs[o]
    /\ workspace_catalog_register

\* C8: an output declared without mimeType is given the string form of the
\* raw engine value and nothing else: it never holds a collection, and no
\* catalog read and no registration is made for it.
C8_PlainOutputsKeepRawValue ==
    \A o \in DOMAIN outputs :
        "mimeType" \notin DOMAIN outputs[o]
            => /\ "collection" \notin DOMAIN outputs[o]
               /\ ReadsOf(o) = {}
               /\ RequestsOf(o) = {}
               /\ "value" \in DOMAIN outputs[o]
                     => (o \in DOMAIN engine.output
                         /\ outputs[o]["value"] = Str(engine.output[o]))
               /\ (next_output > o /\ PreDone) => "value" \in DOMAIN outputs[o]

\* an output without mimeType whose raw value is a storage reference was
\* mapped, and the function returned
C8_Witness ==
    /\ pc = "done"
    /\ result = SERVICE_SUCCEEDED
    /\ \E o \in DOMAIN outputs :
        /\ "mimeType" \notin DOMAIN outputs[o]
        /\ engine.output[o] = DictOut(K2)
        /\ outputs[o]["value"] = Str(DictOut(K2))

\* C4: whenever an exception was raised inside the entry function, it returns
\* SERVICE_FAILED and lenv.message holds a text with the trace of that
\* exception, whether the two salvage steps succeeded or failed.
C4_FailureIsReported ==
    (pc = "done" /\ exc # NoExc)
        => /\ result = SERVICE_FAILED
           /\ "message" \in DOMAIN conf_lenv
           /\ conf_lenv["message"] # NoMessage
           /\ conf_lenv["message"].stack = exc

\* the handler exists and the external engine has not run yet
BeforeEngine == pc \in {"make_runner", "pre_execution_hook", "engine_run"}

\* C11: from the construction of the handler until the engine runs,
\* additional_parameters holds the four STAGEIN_* and the five STAGEOUT_* keys,
\* whatever the initial configuration was; applying init_config_defaults a
\* second time in the same environment changes nothing.
C11_StagingKeysPresent ==
    BeforeEngine
        => /\ handler_defined
           /\ "additional_parameters" \in conf_keys
           /\ StageInKeys \subseteq DOMAIN conf_additional_parameters
           /\ StageOutKeys \subseteq DOMAIN conf_additional_parameters
           /\ pc = "make_runner"
                 => init_config_defaults(conf_additional_parameters, environ)
                        = conf_additional_parameters

\* a configuration that came without additional_parameters reached the engine
\* with the hard-coded stage-in defaults
C11_Witness ==
    /\ pc = "engine_run"
    /\ "custom" \notin DOMAIN conf_additional_parameters
    /\ StageKeys \subseteq DOMAIN conf_additional_parameters
    /\ conf_additional_parameters["STAGEIN_AWS_REGION"] = "RegionOne"

PostIssued == \E i \in DOMAIN requests : requests[i].req.method = "POST"

\* C12: a registration POST is issued only while workspace integration is in
\* effect and the opt-in flag is true; once pre_execution_hook has disabled
\* workspace mode, no register-json or register POST is issued.
C12_RegistrationOnlyWithWorkspace ==
    PostIssued => (use_workspace /\ workspace_catalog_register)

PostsOf(o) ==
    { i \in DOMAIN requests : requests[i].output = o /\ requests[i].req.method = "POST" }

RegistrationFails == register_api.json # "ok" \/ register_api.item # "ok"

\* C13: a failing registration (a non-2xx answer or a network error on either
\* POST) is never escalated: setOutput returns, the loop of
\* post_execution_hook moves on, and the assembled collection stays stored.
C13_RegistrationFailureNotEscalated ==
    RegistrationFails
        => \A o \in DOMAIN outputs :
              PostsOf(o) # {}
                  => /\ next_output > o
                     /\ StoredCollection(o) # Sentinel

IsPostOf(o, r) == r.output = o /\ r.req.method = "POST"

\* the endpoints of the POSTs sent for output o, in the order they were sent
RECURSIVE PostPaths(_, _)
PostPaths(o, sent) ==
    IF sent = << >> THEN << >>
    ELSE (IF IsPostOf(o, Head(sent)) THEN << Head(sent).req.path >> ELSE << >>)
         \o PostPaths(o, Tail(sent))

\* C14: with registration enabled, an output whose collection was assembled
\* has exactly one register-json POST followed by exactly one register POST;
\* an output that holds the empty sentinel, or no collection, has none.
C14_OneRegistrationPerCollection ==
    workspace_catalog_register
        => \A o \in DOMAIN outputs :
              PostPaths(o, requests)
                  = IF StoredCollection(o) # Sentinel
                    THEN << "register-json", "register" >>
                    ELSE << >>

\* the number of entries service_logs holds
EntryCount == Cardinality({ k \in DOMAIN conf_service_logs : k[1] = "url" })

\* the keys of n entries numbered contiguously, with the counter
ContiguousKeys(n) ==
    { Key(f, i) : f \in {"url", "title", "rel"}, i \in 0..(n - 1) } \cup {LengthKey}

\* C15: after any sequence of handle_outputs calls and failure-path salvage,
\* the entries of service_logs are keyed contiguously (unsuffixed, _1, _2, ...)
\* and service_logs.length is the number of entries present.
C15_ServiceLogsContiguous ==
    "service_logs" \in conf_keys
        => /\ DOMAIN conf_service_logs = ContiguousKeys(EntryCount)
           /\ conf_service_logs[LengthKey] = Str(EntryCount)

\* the entry fields service_logs holds are all kept by the step
EntriesKept ==
    \A k \in DOMAIN conf_service_logs :
        k # LengthKey
            => /\ k \in DOMAIN conf_service_logs'
               /\ conf_service_logs'[k] = conf_service_logs[k]

\* C16: on the failure path, writing the job-log entry overwrites no entry
\* that exists, and the tool-log handoff that follows overwrites neither the
\* job-log entry nor any entry that existed before the failure.
C16_SalvageOverwritesNothing ==
    [][(pc \in {"except_job_log", "except_tool_logs"}) => EntriesKept]_vars

JobLogEntryPresent ==
    \E k \in DOMAIN conf_service_logs :
        k[1] = "title" /\ conf_service_logs[k].text = "Job pod log"

\* C17: each salvage step is guarded on its own: once the runner has started
\* an execution, the job-log entry is appended whether or not persisting the
\* job log failed, and the tool-log handoff and the failure message are
\* carried out whatever the earlier steps did.
C17_SalvageStepsIndependent ==
    /\ (pc = "except_tool_logs" /\ runner_defined /\ execution_started)
          => JobLogEntryPresent
    /\ (pc = "done" /\ exc # NoExc)
          => (salvage.tool_logs # "pending" /\ salvage.message = "done")

\* the credentials object of a workspace response that was parsed
ParsedCredentials ==
    /\ workspace_api.net = "ok"
    /\ workspace_api.status < 400
    /\ workspace_api.body.json
    /\ workspace_api.body.has_creds

StageOutFromResponse ==
    /\ ParsedCredentials
    /\ \A k \in StageOutKeys :
          /\ CredFieldOf[k] \in DOMAIN workspace_api.body.creds
          /\ conf_additional_parameters[k] = workspace_api.body.creds[CredFieldOf[k]]

\* C18: once the handler exists, the five STAGEOUT_* values come from one
\* source: all five are the pre-configured defaults, or all five are the
\* endpoint, access, secret, region and bucketname of the workspace response.
C18_StageOutSingleSource ==
    handler_defined => (StageOutAtDefaults \/ StageOutFromResponse)

InPreHook == pc = "pre_execution_hook"
InPostHook == pc \in {"post_execution_hook", "map_outputs"}

NativeRead(i) ==
    /\ ~ReadFails(store, reads[i].req)
    /\ store[reads[i].req.key].kind = "catalog"
    /\ Len(store[reads[i].req.key].collections) > 0

\* the document the last read of output o returned
LastDocOf(o) ==
    store[reads[CHOOSE i \in ReadsOf(o) : \A j \in ReadsOf(o) : j <= i].req.key]

MissingValue(v) ==
    \/ v.kind = "none"
    \/ v.kind = "list" /\ (v.els = << >> \/ v.els[1].kind = "none")

\* the loop of post_execution_hook has reached output o and called setOutput
MappingAttempted(o) ==
    \/ next_output > o
    \/ next_output = o /\ exc.origin = "post_execution_hook"
         /\ \E i \in DOMAIN hook_log : hook_log[i].hook = "post"

\* C21: for an output with a mimeType whose engine value is missing, setOutput
\* does not raise: it records the empty-collection sentinel and sends no
\* registration request.
C21_MissingValueGivesSentinel ==
    \A o \in DOMAIN outputs :
        ("mimeType" \in DOMAIN outputs[o] /\ o \in DOMAIN engine.output
         /\ MissingValue(engine.output[o]) /\ MappingAttempted(o))
            => /\ next_output > o
               /\ "collection" \in DOMAIN outputs[o]
               /\ outputs[o]["collection"] = Sentinel
               /\ PostsOf(o) = {}


RECURSIVE Occurrences(_, _)
\* how many segments of url are x
Occurrences(url, x) ==
    IF url = << >> THEN 0
    ELSE (IF Head(url) = x THEN 1 ELSE 0) + Occurrences(Tail(url), x)

\* the bases of the log URLs present in service_logs
LogUrlBases == { conf_service_logs[k].base : k \in { q \in DOMAIN conf_service_logs : q[1] = "url" } }

\* C22: the user prefix is inserted into main.tmpUrl at most once per
\* execution: every tool-log URL handle_outputs builds, on its first call or
\* on a later one, has the base with the single prefix, and the job-log URL
\* has the same base.
C22_UserPrefixOnce ==
    "user" \in DOMAIN conf_auth_env =>
        /\ Occurrences(conf_main.tmpUrl, conf_auth_env["user"]) <= 1
        /\ \A b \in LogUrlBases : Occurrences(b, conf_auth_env["user"]) <= 1
        /\ Cardinality(LogUrlBases) <= 1

====
